---- MODULE Spec2Model ----
(***************************************************************************)
(* text-to-svg-path: textToSvgPath (single and batch mode),                *)
(* processSingleText and processTextWithFont of src/src/text-to-svg-path.ts *)
(* as a state machine.  One call is a walk through the await points of the *)
(* code; node-fetch and opentype.js are the environment.                    *)
(*                                                                         *)
(* Representation.  A JavaScript object is a TLA+ record; an absent        *)
(* (undefined) property is a field missing from the record's DOMAIN.       *)
(* Numbers that can be fractional (coordinates, padding) are integers in   *)
(* tenths; fontSize, x, y, width and height of a request are whole units.  *)
(* Strings are TLA+ strings and template literals are concatenations.      *)
(***************************************************************************)
EXTENDS Integers, Sequences, FiniteSets, TLC

VARIABLES
  plan,        \* the caller: the arguments of the calls it makes, in order
  hist,        \* the caller: what it has kept of the calls that ended (history)
  input,       \* the options object the caller passes to textToSvgPath
  pc,          \* position of the call in the code
  calls,       \* number of calls of textToSvgPath started so far
  fontGroups,  \* fontGroups: font URL -> sequence of labels (line 34)
  groupOrder,  \* Object.keys(fontGroups): the URLs in insertion order
  gi,          \* index in groupOrder of the group being processed (line 46)
  ki,          \* index in the group of the label being generated (line 63)
  font,        \* the parsed font of the current try block (lines 60, 121)
  error,       \* message of the error thrown inside the current try block
  result,      \* batch: the label -> result object (line 31)
  ret,         \* how the call ended: the resolved value or the rejection
  fetchLog,    \* the URLs fetch was invoked with during this call, in order
  fate         \* per processed group: how its try block ended (history)

vars == <<plan, hist, input, pc, calls, fontGroups, groupOrder, gi, ki, font, error,
          result, ret, fetchLog, fate>>

---------------------------------------------------------------------------
(* Bounds of the model *)

\* how many distinct font URLs the requests can name
NumUrls == 2
\* how many labels a batch mapping can hold
MaxLabels == 3
\* how many times the caller calls textToSvgPath in a row
MaxCalls == 1
\* the calls of a caller that repeats its call
MaxRepeats == 3

---------------------------------------------------------------------------
(* Program constants: the destructuring defaults of processTextWithFont *)

DefaultFontSize == 72
DefaultX == 0
DefaultBackgroundWidth == 400
DefaultBackgroundHeight == 200
DefaultBackgroundX == 50
DefaultBackgroundY == 120
DefaultFill == "#000000"
DefaultStroke == "none"
DefaultStrokeWidth == "0"

---------------------------------------------------------------------------
(* Small helpers for JavaScript objects *)

\* 'f in o' / o.f !== undefined for the objects of the model
Has(o, f) == f \in DOMAIN o

\* destructuring with a default: the default applies when the property is undefined
GetOr(o, f, d) == IF f \in DOMAIN o THEN o[f] ELSE d

\* o[k] = v on a plain object
Put(o, k, v) == [x \in (DOMAIN o) \cup {k} |-> IF x = k THEN v ELSE o[x]]

EmptyObj == [x \in {} |-> 0]

Range(s) == {s[i] : i \in DOMAIN s}

\* JavaScript's number-to-string of a number held in tenths
NumStr(t) ==
  LET a == IF t < 0 THEN 0 - t ELSE t
      body == ToString(a \div 10) \o
              (IF a % 10 = 0 THEN "" ELSE "." \o ToString(a % 10))
  IN IF t < 0 THEN "-" \o body ELSE body

\* Math.ceil of a number held in tenths; the result is a whole number
Ceil(t) == IF t % 10 = 0 THEN t \div 10 ELSE (t \div 10) + 1

---------------------------------------------------------------------------
(* The environment: the font resources behind the URLs, and opentype.js.  *)
(* A font is a monospace face: every glyph is a box gw/10 em wide and     *)
(* gh/10 em high standing on the baseline; kerning pulls neighbouring     *)
(* glyphs together by kern/10 em.                                          *)

UrlNames == <<"https://fonts.test/a.ttf", "https://fonts.test/b.ttf",
              "https://fonts.test/c.ttf", "https://fonts.test/d.ttf">>

Urls == {UrlNames[i] : i \in 1..NumUrls}

\* String(undefined): the property key and the fetch argument that a request
\* without a fontUrl produces (lines 39-42, 46, 50)
UndefinedKey == "undefined"

\* opentype.parse(fontData) of the bytes served at url (lines 60, 121)
FontAt(url) ==
  LET i == CHOOSE j \in 1..Len(UrlNames) : UrlNames[j] = url
  IN [id |-> url, gw |-> 4 + i, gh |-> 6 + i, kern |-> 1]

\* font.getPath(text, x, y, fontSize, {kerning}) (line 168): the glyph boxes,
\* in tenths, left to right
getPath(f, text, x, y, fontSize, kerning) ==
  LET adv == fontSize * f.gw
      step == adv - (IF kerning THEN fontSize * f.kern ELSE 0)
  IN [i \in 1..Len(text) |->
        [x1 |-> 10 * x + (i - 1) * step,
         x2 |-> 10 * x + (i - 1) * step + adv,
         y1 |-> 10 * y - fontSize * f.gh,
         y2 |-> 10 * y]]

RECURSIVE CmdStr(_, _)
CmdStr(path, i) ==
  IF i > Len(path) THEN ""
  ELSE "M" \o NumStr(path[i].x1) \o " " \o NumStr(path[i].y2)
       \o "L" \o NumStr(path[i].x2) \o " " \o NumStr(path[i].y1) \o "Z"
       \o CmdStr(path, i + 1)

\* path.toPathData(2) (line 169)
toPathData(path) == CmdStr(path, 1)

\* path.getBoundingBox() (line 184); the path of a non-empty text
getBoundingBox(path) ==
  [x1 |-> path[1].x1, y1 |-> path[1].y1,
   x2 |-> path[Len(path)].x2, y2 |-> path[Len(path)].y2]

---------------------------------------------------------------------------
(* processTextWithFont (lines 134-227) *)

\* a number as a condition: 0 (and an absent property) is falsy
TruthyNum(o, f) == Has(o, f) /\ o[f] # 0

\* a string as a condition: "" (and an absent property) is falsy
TruthyStr(o, f) == Has(o, f) /\ o[f] # ""

\* shouldGenerate without the outputFormats.length === 0 test of line 154
shouldGenerateNoEmptyTest(opts, format) ==
  IF ~Has(opts, "outputFormats")
  THEN TRUE
  ELSE format \in Range(opts.outputFormats)

\* shouldGenerate (lines 153-158)
shouldGenerate(opts, format) ==
  IF ~Has(opts, "outputFormats") \/ Len(opts.outputFormats) = 0
  THEN TRUE
  ELSE format \in Range(opts.outputFormats)

\* the <path .../> template (lines 173-178 and 198-203)
PathMarkup(d, fill, stroke, strokeWidth) ==
  "<path \n  d=\"" \o d \o "\" \n  fill=\"" \o fill
  \o "\"\n  stroke=\"" \o stroke
  \o "\"\n  stroke-width=\"" \o strokeWidth \o "\"\n/>"

\* the <svg> template (lines 192-204); w and h whole numbers, vx and vy tenths
SvgMarkup(w, h, vx, vy, inner) ==
  "<svg \nxmlns=\"http://www.w3.org/2000/svg\" \nwidth=\"" \o ToString(w)
  \o "\" \nheight=\"" \o ToString(h)
  \o "\" \nviewBox=\"" \o NumStr(vx) \o " " \o NumStr(vy) \o " "
  \o ToString(w) \o " " \o ToString(h) \o "\"\n>\n" \o inner \o "\n</svg>"

\* the background <svg> template (lines 209-223)
BackgroundMarkup(d, bw, bh, bx, by, background, fill, stroke, strokeWidth) ==
  "<svg \nxmlns=\"http://www.w3.org/2000/svg\" \nwidth=\"" \o ToString(bw)
  \o "\" \nheight=\"" \o ToString(bh)
  \o "\" \nviewBox=\"0 0 " \o ToString(bw) \o " " \o ToString(bh)
  \o "\"\n>\n<rect x=\"0\" y=\"0\" width=\"" \o ToString(bw)
  \o "\" height=\"" \o ToString(bh) \o "\" fill=\"" \o background
  \o "\" />\n<path \n  d=\"" \o d
  \o "\" \n  transform=\"translate(" \o ToString(bx) \o ", " \o ToString(by)
  \o ")\" \n  fill=\"" \o fill \o "\"\n  stroke=\"" \o stroke
  \o "\"\n  stroke-width=\"" \o strokeWidth \o "\"\n/>\n</svg>"

\* const width = options.width || Math.ceil(bbox.x2 - bbox.x1 + padding * 2)
\* (lines 188, 189); lo and hi are the box sides, padding in tenths
DimOr(opts, f, lo, hi, padding) ==
  IF TruthyNum(opts, f) THEN opts[f] ELSE Ceil(hi - lo + padding * 2)

\* result.svg (lines 182-205)
SvgOf(opts, path, fontSize, pathData, pathElement, fill, stroke, strokeWidth) ==
  LET bbox == getBoundingBox(path)
      padding == fontSize * 2
      width == DimOr(opts, "width", bbox.x1, bbox.x2, padding)
      height == DimOr(opts, "height", bbox.y1, bbox.y2, padding)
  IN SvgMarkup(width, height, bbox.x1 - padding, bbox.y1 - padding,
               IF pathElement # "" THEN pathElement
               ELSE PathMarkup(pathData, fill, stroke, strokeWidth))

\* the test of line 208 with background !== undefined in the place of background
WantsBackgroundDefined(opts) ==
  shouldGenerate(opts, "svgWithBackground") /\ Has(opts, "background")

\* if (shouldGenerate('svgWithBackground') && background) (line 208)
WantsBackground(opts) ==
  shouldGenerate(opts, "svgWithBackground") /\ TruthyStr(opts, "background")

\* pathData computed only when shouldGenerate('pathData')
pathDataIfRequested(opts, path) ==
  IF shouldGenerate(opts, "pathData") THEN toPathData(path) ELSE ""

\* result.pathData = path.toPathData(2), whatever outputFormats holds
\* (lines 167-169)
pathDataOf(opts, path) == toPathData(path)

processTextWithFont(opts, f) ==
  LET fontSize == GetOr(opts, "fontSize", DefaultFontSize)
      fill == GetOr(opts, "fill", DefaultFill)
      stroke == GetOr(opts, "stroke", DefaultStroke)
      strokeWidth == GetOr(opts, "strokeWidth", DefaultStrokeWidth)
      kerning == GetOr(opts, "kerning", TRUE)
      x == GetOr(opts, "x", DefaultX)
      y == GetOr(opts, "y", fontSize)
      bw == GetOr(opts, "backgroundWidth", DefaultBackgroundWidth)
      bh == GetOr(opts, "backgroundHeight", DefaultBackgroundHeight)
      bx == GetOr(opts, "backgroundX", DefaultBackgroundX)
      by == GetOr(opts, "backgroundY", DefaultBackgroundY)
      path == getPath(f, opts.text, x, y, fontSize, kerning)
      pathData == pathDataOf(opts, path)
      pathElement == IF shouldGenerate(opts, "pathElement")
                     THEN PathMarkup(pathData, fill, stroke, strokeWidth)
                     ELSE ""
      svg == IF shouldGenerate(opts, "svg")
             THEN SvgOf(opts, path, fontSize, pathData, pathElement,
                        fill, stroke, strokeWidth)
             ELSE ""
      base == [svg |-> svg, pathData |-> pathData, pathElement |-> pathElement]
  IN IF WantsBackground(opts)
     THEN Put(base, "svgWithBackground",
              BackgroundMarkup(pathData, bw, bh, bx, by, opts.background,
                               fill, stroke, strokeWidth))
     ELSE base

---------------------------------------------------------------------------
(* The inputs the caller can pass *)

LabelNames == <<"a", "text", "b", "c", "d">>

Labels == {LabelNames[i] : i \in 1..MaxLabels}

\* S, and every record of S with field f added, for each value of V
WithOpt(S, f, V) == S \cup {Put(r, f, v) : r \in S, v \in V}

\* a value of a mapping that is no request: a primitive such as the string of
\* { text: 'A' }.  It is boxed in a record so that it has a DOMAIN; it has no
\* fontUrl property, like the primitive it stands for
Primitive == [prim |-> "A"]

\* the requests of the batch inputs
ProgRequests ==
  WithOpt({[text |-> "AV", fontUrl |-> u] : u \in Urls},
          "background", {"#333333"})

\* batch inputs: every mapping of at most MaxLabels labels; the object that
\* has only a fontUrl; single requests
ProgInputs ==
  UNION {[L -> ProgRequests \cup {Primitive}] : L \in SUBSET Labels}
  \cup {[fontUrl |-> Primitive]}
  \cup ProgRequests

FormatLists ==
  {<<>>, <<"pathData">>, <<"pathElement">>, <<"svg">>, <<"svgWithBackground">>,
   <<"pathData", "pathElement">>, <<"svg", "svgWithBackground">>}

\* the requests of the generator's inputs: every combination of the options
\* processTextWithFont branches on
GenRequests ==
  WithOpt(WithOpt(WithOpt(WithOpt(WithOpt(WithOpt(WithOpt(
    {[text |-> t, fontUrl |-> UrlNames[1]] : t \in {"A", "AV"}},
    "outputFormats", FormatLists),
    "background", {"", "#333333"}),
    "width", {0, 300}),
    "height", {0, 150}),
    "fontSize", {9}),
    "kerning", {FALSE}),
    "fill", {"#FFFFFF"})

\* the arguments of the callers that call several times: a request with one
\* of two fonts, or a mapping of the labels a and b to such requests
CallRequests == {[text |-> "AV", fontUrl |-> u] : u \in {UrlNames[1], UrlNames[2]}}

CallInputs == CallRequests \cup {[a |-> r1, b |-> r2] : r1, r2 \in CallRequests}

\* requests as an untyped caller can write them: with or without a text
ThrowRequests ==
  CallRequests \cup {[fontUrl |-> u] : u \in {UrlNames[1], UrlNames[2]}}

\* the arguments of such a caller: a request, or a mapping of the labels a,
\* b and c
ThrowInputs == CallRequests \cup [{"a", "b", "c"} -> ThrowRequests]

GenInputs == GenRequests \cup {[a |-> r] : r \in GenRequests}

---------------------------------------------------------------------------
(* textToSvgPath (lines 18-82) and processSingleText (lines 87-129) *)

\* the test of line 22 with || in the place of &&
IsSingleEither(options) == Has(options, "text") \/ Has(options, "fontUrl")

\* 'text' in options && 'fontUrl' in options (line 22)
IsSingle(options) == Has(options, "text") /\ Has(options, "fontUrl")

\* Object.keys(multiOptions) (line 28): the labels, in the order the caller
\* wrote them, here the order of LabelNames, then fontUrl
KeysOf(options) ==
  SelectSeq(LabelNames \o <<"fontUrl">>, LAMBDA k : k \in DOMAIN options)

\* the property key opts.fontUrl selects in fontGroups (lines 39-42)
FontUrlKey(opts) == IF Has(opts, "fontUrl") THEN opts.fontUrl ELSE UndefinedKey

\* the grouping loop (lines 37-43), from key number i on; g is
\* [groups |-> fontGroups, order |-> Object.keys(fontGroups)]
\* the grouping without the test of line 39: every key opens a group of its own
RECURSIVE GroupFromNoDedup(_, _, _, _)
GroupFromNoDedup(options, keys, i, g) ==
  IF i > Len(keys) THEN g
  ELSE LET key == keys[i]
           url == FontUrlKey(options[key])
       IN GroupFromNoDedup(options, keys, i + 1,
            [groups |-> Put(g.groups, url,
                            IF url \in DOMAIN g.groups
                            THEN Append(g.groups[url], key) ELSE <<key>>),
             order |-> Append(g.order, url)])

RECURSIVE GroupFrom(_, _, _, _)
GroupFrom(options, keys, i, g) ==
  IF i > Len(keys) THEN g
  ELSE LET key == keys[i]
           url == FontUrlKey(options[key])
       IN IF url \in DOMAIN g.groups
          THEN GroupFrom(options, keys, i + 1,
                 [g EXCEPT !.groups[url] = Append(@, key)])
          ELSE GroupFrom(options, keys, i + 1,
                 [groups |-> Put(g.groups, url, <<key>>),
                  order |-> Append(g.order, url)])

Grouping(options) ==
  GroupFrom(options, KeysOf(options), 1, [groups |-> EmptyObj, order |-> <<>>])

\* how a fetch(url) can settle: a response with ok = true, a response with
\* ok = false, a rejection after a network failure; a string that is no
\* absolute URL is rejected at once
FetchOutcomes(url) ==
  IF url \in Urls THEN {"response", "status", "network"} ELSE {"invalid"}

\* what opentype.parse finds in the bytes of an ok response
BodyOutcomes == {"font", "garbage"}

\* the message of the error a failed fetch leaves in the try block
\* (node-fetch's rejections, and line 53 / 114 for a response that is not ok)
FetchErrorMessage(url, outcome) ==
  CASE outcome = "status" ->
         "Failed to fetch font: " \o "Not Found" \o " (" \o ToString(404) \o ")"
    [] outcome = "network" ->
         "request to " \o url \o " failed, reason: connect ECONNREFUSED"
    [] OTHER -> "Only absolute URLs are supported"

\* the message of the error opentype.parse throws on bytes that are no font
ParseErrorMessage == "Unsupported OpenType signature <htm"

\* the result the batch catch block stores (lines 72-76)
Degraded(message) ==
  [svg |-> "<svg><text>Error: " \o message \o "</text></svg>",
   pathData |-> "",
   pathElement |-> ""]

\* the catch block's loop (lines 71-77): every key of the group, from number i on
\* a catch block that stores nothing
DegradeNone(res, group, i, message) == res

\* a catch block that stores the error result under the group's first key only
DegradeFirstOnly(res, group, i, message) ==
  IF Len(group) = 0 THEN res ELSE Put(res, group[1], Degraded(message))

RECURSIVE DegradeFrom(_, _, _, _)
DegradeFrom(res, group, i, message) ==
  IF i > Len(group) THEN res
  ELSE DegradeFrom(Put(res, group[i], Degraded(message)), group, i + 1, message)

\* a catch block that rethrows the underlying message as it is
SingleErrorMessageBare(message) == message

\* the error processSingleText throws (lines 126, 127)
SingleErrorMessage(message) ==
  "Error generating SVG path: " \o (IF message # "" THEN message ELSE "Unknown error")

NoFont == [id |-> "", gw |-> 0, gh |-> 0, kern |-> 0]
NoRet == [kind |-> "none"]

CurUrl == groupOrder[gi]
CurGroup == fontGroups[groupOrder[gi]]

\* a catch block that writes every key of the call
CatchKeysAll == KeysOf(input)

\* a catch block that writes the key that failed and the keys after it,
\* and leaves the results written before the failure
CatchKeysRemaining ==
  IF ki = 0 THEN CurGroup ELSE SubSeq(CurGroup, ki, Len(CurGroup))

\* the keys the catch block writes: fontGroups[fontUrl] (line 71)
CatchKeys == CurGroup

\* the argument of processSingleText's fetch: options.fontUrl (lines 90, 111)
SingleUrl == FontUrlKey(input)

\* a retrieval behind a cache that outlives the call: a URL an earlier call
\* of the caller retrieved is not retrieved again
InvokeFetchCached(log, url) ==
  IF \E i \in DOMAIN hist : \E k \in DOMAIN hist[i].fetchLog : hist[i].fetchLog[k] = url
  THEN log
  ELSE Append(log, url)

\* a batch loop that starts the retrieval of the next group together with
\* the one of the current group
InvokeFetchAhead(log, url) ==
  IF pc = "b_loop" /\ gi < Len(groupOrder)
  THEN log \o <<url, groupOrder[gi + 1]>>
  ELSE Append(log, url)

\* fetch(fontUrl) is invoked (lines 50, 111): one more retrieval of url
InvokeFetch(log, url) == Append(log, url)

\* a single mode whose path data is kept in a buffer that outlives the call
\* and is appended to, so a later call starts with the earlier path
SingleResultAppending(opts, f) ==
  LET r == processTextWithFont(opts, f)
  IN [r EXCEPT !.pathData = IF calls > 1 THEN @ \o @ ELSE @]

\* a single mode that generates every format, whatever outputFormats names
SingleResultAllFormats(opts, f) ==
  processTextWithFont([k \in DOMAIN opts \ {"outputFormats"} |-> opts[k]], f)

\* return processTextWithFont(options, font) (line 123)
SingleResult(opts, f) == processTextWithFont(opts, f)

\* font.getPath reads text.length: a request without a text makes
\* processTextWithFont throw (line 168)
GenThrows(opts) == ~Has(opts, "text")

\* the message of that TypeError
GenErrorMessage == "Cannot read properties of undefined (reading 'length')"

Locals == <<fontGroups, groupOrder, gi, ki, font, error, result, ret, fetchLog, fate>>

LocalsInit ==
  /\ fontGroups = EmptyObj
  /\ groupOrder = <<>>
  /\ gi = 0
  /\ ki = 0
  /\ font = NoFont
  /\ error = ""
  /\ result = EmptyObj
  /\ ret = NoRet
  /\ fetchLog = <<>>
  /\ fate = EmptyObj

\* the caller has its plan and has not called yet; input is the argument
\* of the call it makes next
InitPlan(p) ==
  /\ plan = p
  /\ hist = <<>>
  /\ input = p[1]
  /\ pc = "idle"
  /\ calls = 0
  /\ LocalsInit

\* the plan of a caller that passes the argument o n times
Repeat(o, n) == [i \in 1..n |-> o]

\* a caller that passes one of Inputs, n times
InitWith(Inputs, n) == \E o \in Inputs : InitPlan(Repeat(o, n))

\* the argument of the call the caller makes next
NextArg == plan[calls + 1]

Init == InitWith(ProgInputs, MaxCalls)

InitGen == InitWith(GenInputs, MaxCalls)

\* a caller whose requests may lack the text
InitThrow == InitWith(ThrowInputs, MaxCalls)

\* a caller that passes a request, and then the mapping of the label a to
\* that request
InitModes == \E r \in GenRequests : InitPlan(<<r, [a |-> r]>>)

\* a caller that passes the same argument MaxRepeats times, a request or a
\* mapping of two labels
InitCalls == InitWith(CallInputs, MaxRepeats)

\* textToSvgPath(options) with a single request (lines 22-24, 87-106)
CallSingle ==
  /\ pc = "idle"
  /\ calls < Len(plan)
  /\ IsSingle(NextArg)
  /\ input' = NextArg
  /\ calls' = calls + 1
  /\ pc' = "s_fetch"
  /\ UNCHANGED <<plan, hist, Locals>>

\* textToSvgPath(options) with a mapping: the grouping (lines 27-43)
CallBatch ==
  /\ pc = "idle"
  /\ calls < Len(plan)
  /\ ~IsSingle(NextArg)
  /\ input' = NextArg
  /\ calls' = calls + 1
  /\ fontGroups' = Grouping(NextArg).groups
  /\ groupOrder' = Grouping(NextArg).order
  /\ gi' = 1
  /\ result' = EmptyObj
  /\ pc' = "b_loop"
  /\ UNCHANGED <<plan, hist, ki, font, error, ret, fetchLog, fate>>

\* the head of the group loop and the fetch of its try block (lines 46-50)
BatchFetch ==
  /\ pc = "b_loop"
  /\ gi <= Len(groupOrder)
  /\ fetchLog' = InvokeFetch(fetchLog, CurUrl)
  /\ pc' = "b_await_fetch"
  /\ UNCHANGED <<plan, hist, input, calls, fontGroups, groupOrder, gi, ki, font, error,
                 result, ret, fate>>

\* await fetch(fontUrl) settles; if (!fontResponse.ok) throw (lines 50-54)
BatchFetchSettles ==
  /\ pc = "b_await_fetch"
  /\ \E o \in FetchOutcomes(CurUrl) :
       IF o = "response"
       THEN pc' = "b_await_body" /\ UNCHANGED error
       ELSE pc' = "b_catch" /\ error' = FetchErrorMessage(CurUrl, o)
  /\ UNCHANGED <<plan, hist, input, calls, fontGroups, groupOrder, gi, ki, font,
                 result, ret, fetchLog, fate>>

\* await fontResponse.arrayBuffer() settles; opentype.parse (lines 57-60)
BatchBodySettles ==
  /\ pc = "b_await_body"
  /\ \E b \in BodyOutcomes :
       IF b = "font"
       THEN pc' = "b_gen" /\ font' = FontAt(CurUrl) /\ ki' = 1 /\ UNCHANGED error
       ELSE pc' = "b_catch" /\ error' = ParseErrorMessage /\ UNCHANGED <<font, ki>>
  /\ UNCHANGED <<plan, hist, input, calls, fontGroups, groupOrder, gi, result, ret,
                 fetchLog, fate>>

\* result[key] = await processTextWithFont(opts, font) (lines 63-68); when
\* it throws, control passes to the catch of the group (line 69)
BatchGenerate ==
  /\ pc = "b_gen"
  /\ ki <= Len(CurGroup)
  /\ IF GenThrows(input[CurGroup[ki]])
       THEN /\ error' = GenErrorMessage
            /\ pc' = "b_catch"
            /\ UNCHANGED <<result, ki>>
       ELSE /\ result' = Put(result, CurGroup[ki],
                             processTextWithFont(input[CurGroup[ki]], font))
            /\ ki' = ki + 1
            /\ UNCHANGED <<pc, error>>
  /\ UNCHANGED <<plan, hist, input, calls, fontGroups, groupOrder, gi, font,
                 ret, fetchLog, fate>>

\* the inner loop is over: the try block ends, next group (lines 68, 79)
BatchGroupDone ==
  /\ pc = "b_gen"
  /\ ki > Len(CurGroup)
  /\ fate' = Put(fate, CurUrl, [ok |-> TRUE])
  /\ gi' = gi + 1
  /\ ki' = 0
  /\ font' = NoFont
  /\ pc' = "b_loop"
  /\ UNCHANGED <<plan, hist, input, calls, fontGroups, groupOrder, error, result, ret, fetchLog>>

\* catch (error): every label of the group gets the error result (lines 69-78)
BatchCatch ==
  /\ pc = "b_catch"
  /\ result' = DegradeFrom(result, CatchKeys, 1, error)
  /\ fate' = Put(fate, CurUrl, [ok |-> FALSE, message |-> error])
  /\ gi' = gi + 1
  /\ ki' = 0
  /\ font' = NoFont
  /\ error' = ""
  /\ pc' = "b_loop"
  /\ UNCHANGED <<plan, hist, input, calls, fontGroups, groupOrder, ret, fetchLog>>

\* return result (line 81)
BatchReturn ==
  /\ pc = "b_loop"
  /\ gi > Len(groupOrder)
  /\ ret' = [kind |-> "resolved", mode |-> "batch", value |-> result]
  /\ pc' = "done"
  /\ UNCHANGED <<plan, hist, input, calls, fontGroups, groupOrder, gi, ki, font, error,
                 result, fetchLog, fate>>

\* processSingleText: the fetch of its try block (lines 108-111)
SingleFetch ==
  /\ pc = "s_fetch"
  /\ fetchLog' = InvokeFetch(fetchLog, SingleUrl)
  /\ pc' = "s_await_fetch"
  /\ UNCHANGED <<plan, hist, input, calls, fontGroups, groupOrder, gi, ki, font, error,
                 result, ret, fate>>

\* await fetch(fontUrl) settles; if (!fontResponse.ok) throw (lines 111-115)
SingleFetchSettles ==
  /\ pc = "s_await_fetch"
  /\ \E o \in FetchOutcomes(SingleUrl) :
       IF o = "response"
       THEN pc' = "s_await_body" /\ UNCHANGED error
       ELSE pc' = "s_catch" /\ error' = FetchErrorMessage(SingleUrl, o)
  /\ UNCHANGED <<plan, hist, input, calls, fontGroups, groupOrder, gi, ki, font,
                 result, ret, fetchLog, fate>>

\* await fontResponse.arrayBuffer() settles; opentype.parse; return
\* processTextWithFont(options, font) (lines 118-123); a single request
\* has a text (line 22)
SingleBodySettles ==
  /\ pc = "s_await_body"
  /\ \E b \in BodyOutcomes :
       IF b = "font"
       THEN /\ pc' = "done"
            /\ font' = FontAt(SingleUrl)
            /\ ret' = [kind |-> "resolved", mode |-> "single",
                       value |-> SingleResult(input, FontAt(SingleUrl))]
            /\ UNCHANGED error
       ELSE pc' = "s_catch" /\ error' = ParseErrorMessage /\ UNCHANGED <<font, ret>>
  /\ UNCHANGED <<plan, hist, input, calls, fontGroups, groupOrder, gi, ki, result,
                 fetchLog, fate>>

\* catch (error): throw new Error(...) (lines 124-128)
SingleCatch ==
  /\ pc = "s_catch"
  /\ ret' = [kind |-> "rejected", mode |-> "single",
             message |-> SingleErrorMessage(error)]
  /\ fate' = Put(fate, SingleUrl, [ok |-> FALSE, message |-> error])
  /\ pc' = "done"
  /\ UNCHANGED <<plan, hist, input, calls, fontGroups, groupOrder, gi, ki, font, error,
                 result, fetchLog>>

\* the caller has the outcome; the call's locals are gone, it may call again
Finish ==
  /\ pc = "done"
  /\ pc' = "idle"
  /\ fontGroups' = EmptyObj
  /\ groupOrder' = <<>>
  /\ gi' = 0
  /\ ki' = 0
  /\ font' = NoFont
  /\ error' = ""
  /\ result' = EmptyObj
  /\ ret' = NoRet
  /\ fetchLog' = <<>>
  /\ fate' = EmptyObj
  /\ UNCHANGED <<plan, hist, input, calls>>

\* what a caller that keeps the outcomes has of the call that ended
Kept == [input |-> input, ret |-> ret, fetchLog |-> fetchLog, fate |-> fate]

\* the caller has the outcome and keeps it; the call's locals are gone, it
\* may call again
FinishKeep ==
  /\ pc = "done"
  /\ hist' = Append(hist, Kept)
  /\ pc' = "idle"
  /\ fontGroups' = EmptyObj
  /\ groupOrder' = <<>>
  /\ gi' = 0
  /\ ki' = 0
  /\ font' = NoFont
  /\ error' = ""
  /\ result' = EmptyObj
  /\ ret' = NoRet
  /\ fetchLog' = <<>>
  /\ fate' = EmptyObj
  /\ UNCHANGED <<plan, input, calls>>

Next ==
  \/ CallSingle
  \/ CallBatch
  \/ BatchFetch
  \/ BatchFetchSettles
  \/ BatchBodySettles
  \/ BatchGenerate
  \/ BatchGroupDone
  \/ BatchCatch
  \/ BatchReturn
  \/ SingleFetch
  \/ SingleFetchSettles
  \/ SingleBodySettles
  \/ SingleCatch
  \/ Finish

Spec == Init /\ [][Next]_vars

SpecGen == InitGen /\ [][Next]_vars

SpecThrow == InitThrow /\ [][Next]_vars

\* the program with a caller that keeps the outcome of every call
NextKeep ==
  \/ CallSingle
  \/ CallBatch
  \/ BatchFetch
  \/ BatchFetchSettles
  \/ BatchBodySettles
  \/ BatchGenerate
  \/ BatchGroupDone
  \/ BatchCatch
  \/ BatchReturn
  \/ SingleFetch
  \/ SingleFetchSettles
  \/ SingleBodySettles
  \/ SingleCatch
  \/ FinishKeep

SpecCalls == InitCalls /\ [][NextKeep]_vars

SpecModes == InitModes /\ [][NextKeep]_vars

---------------------------------------------------------------------------
(* Vocabulary of the properties *)

\* how often v occurs in the sequence s
Count(s, v) == Cardinality({i \in DOMAIN s : s[i] = v})

\* s holds sub as a substring
Contains(s, sub) ==
  \E i \in 1..(Len(s) - Len(sub) + 1) : SubSeq(s, i, i + Len(sub) - 1) = sub

\* a batch call has returned
BatchDone == pc = "done" /\ ret.kind # "none" /\ ret.mode = "batch"

\* a single-request call has ended
SingleDone == pc = "done" /\ ret.kind # "none" /\ ret.mode = "single"

\* a batch call is under way or has returned
InBatch == pc \in {"b_loop", "b_await_fetch", "b_await_body", "b_gen", "b_catch"} \/ BatchDone

\* the font URLs the requests of a mapping name
RequestedUrls(options) ==
  {options[k].fontUrl : k \in {l \in DOMAIN options : "fontUrl" \in DOMAIN options[l]}}

\* the labels of a mapping whose request names url
LabelsOf(options, url) ==
  {l \in DOMAIN options : "fontUrl" \in DOMAIN options[l] /\ options[l].fontUrl = url}

\* the group of url ended in the catch block / ended with its font resolved
GroupFailed(url) == url \in DOMAIN fate /\ ~fate[url].ok
GroupResolved(url) == url \in DOMAIN fate /\ fate[url].ok

---------------------------------------------------------------------------
(* C1: in one batch call, fetch is invoked exactly once for each distinct  *)
(* fontUrl among the requests, however many labels share the URL and       *)
(* whether the retrieval succeeds or fails: never twice while the call     *)
(* runs, and exactly once when the group has been processed and when the   *)
(* call has returned; nothing is fetched twice.                            *)
C1_FetchOncePerUrl ==
  InBatch =>
    /\ \A u \in RequestedUrls(input) :
         /\ Count(fetchLog, u) <= 1
         /\ (u \in DOMAIN fate \/ BatchDone) => Count(fetchLog, u) = 1
    /\ \A i, j \in DOMAIN fetchLog : fetchLog[i] = fetchLog[j] => i = j

\* a returned batch call in which two labels shared a URL whose retrieval failed
C1_Witness ==
  /\ BatchDone
  /\ \E u \in Urls : Cardinality(LabelsOf(input, u)) >= 2 /\ GroupFailed(u)

---------------------------------------------------------------------------
(* C2: when a batch call returns, the labels of the output mapping are     *)
(* exactly the labels of the input mapping (the empty mapping included),   *)
(* whatever mix of groups succeeded or failed.                             *)
C2_SameLabels ==
  BatchDone => ret.kind = "resolved" /\ DOMAIN ret.value = DOMAIN input

\* a returned batch call of three labels, one group generated and one failed
C2_Witness ==
  /\ BatchDone
  /\ Cardinality(DOMAIN input) >= 3
  /\ \E u, v \in DOMAIN fate : GroupFailed(u) /\ GroupResolved(v)

---------------------------------------------------------------------------
(* C3: a fetch or parse failure of one group never prevents the other      *)
(* groups: the batch call resolves, and every label of a group whose font  *)
(* resolved holds the result generated from its own font, with non-empty   *)
(* pathData, whether the failing group came before or after it.            *)
C3_FailureIsolation ==
  /\ (pc = "done" /\ ~IsSingle(input)) => ret.kind = "resolved"
  /\ BatchDone =>
       \A u \in RequestedUrls(input) :
         GroupResolved(u) =>
           \A l \in LabelsOf(input, u) :
             /\ l \in DOMAIN ret.value
             /\ ret.value[l] = processTextWithFont(input[l], FontAt(u))
             /\ ret.value[l].pathData # ""

\* a returned batch call whose resolved group was processed between two
\* failed groups
C3_Witness ==
  /\ BatchDone
  /\ \E i, j, k \in DOMAIN groupOrder :
       /\ i < j /\ j < k
       /\ GroupFailed(groupOrder[i])
       /\ GroupResolved(groupOrder[j])
       /\ GroupFailed(groupOrder[k])

---------------------------------------------------------------------------
(* C4: when the resolution of a fontUrl fails in batch mode (network       *)
(* failure, response that is not ok, bytes that do not parse), every label *)
(* of that group holds the degraded result: pathData and pathElement       *)
(* empty, an svg string that embeds the error message (the error's        *)
(* message between "<svg><text>Error: " and "</text></svg>"), no           *)
(* svgWithBackground field, also when the request set a background.        *)
C4_DegradedGroup ==
  InBatch =>
    \A u \in DOMAIN fate :
      ~fate[u].ok =>
        \A i \in DOMAIN fontGroups[u] :
          LET l == fontGroups[u][i] IN
          /\ l \in DOMAIN result
          /\ DOMAIN result[l] = {"svg", "pathData", "pathElement"}
          /\ result[l].pathData = ""
          /\ result[l].pathElement = ""
          /\ result[l].svg = "<svg><text>Error: " \o fate[u].message \o "</text></svg>"

\* a returned batch call in which a group of two labels, the second with a
\* background, failed on bytes that do not parse
C4_Witness ==
  /\ BatchDone
  /\ \E u \in Urls :
       /\ GroupFailed(u)
       /\ fate[u].message = ParseErrorMessage
       /\ Len(fontGroups[u]) >= 2
       /\ "background" \in DOMAIN input[fontGroups[u][2]]
       /\ Contains(ret.value[fontGroups[u][2]].svg, ParseErrorMessage)
       /\ Contains(ret.value[fontGroups[u][2]].svg, "Error")

---------------------------------------------------------------------------
(* C5: in single-request mode a fetch or parse failure (network failure,   *)
(* response that is not ok, bytes that do not parse) rejects the call with *)
(* the message "Error generating SVG path: " followed by the underlying    *)
(* error's message; no result, degraded or partial, is returned: a         *)
(* resolved single call holds a generated result of a resolved font.       *)
C5_SingleFailureRejects ==
  SingleDone =>
    /\ GroupFailed(input.fontUrl) =>
         /\ ret.kind = "rejected"
         /\ DOMAIN ret = {"kind", "mode", "message"}
         /\ ret.message = "Error generating SVG path: " \o fate[input.fontUrl].message
    /\ ret.kind = "resolved" =>
         /\ ~GroupFailed(input.fontUrl)
         /\ font = FontAt(input.fontUrl)
         /\ ret.value.pathData # ""
    /\ ret.kind = "rejected" => GroupFailed(input.fontUrl)

\* a single call rejected after a response that was not ok
C5_Witness ==
  /\ SingleDone
  /\ ret.kind = "rejected"
  /\ fate[input.fontUrl].message = FetchErrorMessage(input.fontUrl, "status")

---------------------------------------------------------------------------
(* C6: the input is treated as a single request exactly when the object    *)
(* has both a text and a fontUrl field directly on it; every other object, *)
(* one with only one of the two fields included, is treated as a mapping   *)
(* and each of its keys is processed as a label.                           *)
C6_ModeDiscrimination ==
  LET both == {"text", "fontUrl"} \subseteq DOMAIN input IN
  pc # "idle" =>
    /\ both <=> pc \in {"s_fetch", "s_await_fetch", "s_await_body", "s_catch"} \/ SingleDone
    /\ ~both <=> InBatch
    /\ BatchDone => DOMAIN ret.value = DOMAIN input
    /\ InBatch => \A l \in DOMAIN input : \E u \in DOMAIN fontGroups : l \in Range(fontGroups[u])

\* a returned batch call whose mapping has the key text (or fontUrl) and not
\* the other, that key holding a result
C6_Witness ==
  /\ BatchDone
  /\ Cardinality(DOMAIN input \cap {"text", "fontUrl"}) = 1
  /\ \E l \in {"text", "fontUrl"} : l \in DOMAIN ret.value

---------------------------------------------------------------------------
(* Vocabulary of the generator's properties *)

\* a call has resolved with the result of a request whose font resolved:
\* the request and its result, in either mode
Generated ==
  IF SingleDone /\ ret.kind = "resolved"
  THEN {[req |-> input, res |-> ret.value]}
  ELSE IF BatchDone
  THEN {[req |-> input[l], res |-> ret.value[l]] :
          l \in {k \in DOMAIN input : GroupResolved(FontUrlKey(input[k]))}}
  ELSE {}

\* outputFormats is absent or empty
NoFilter(r) == "outputFormats" \notin DOMAIN r \/ r.outputFormats = <<>>

\* the outputFormats list names the format
Names(r, format) ==
  "outputFormats" \in DOMAIN r /\ \E i \in DOMAIN r.outputFormats : r.outputFormats[i] = format

---------------------------------------------------------------------------
(* C7: for every request whose font resolved, the result has a             *)
(* svgWithBackground field if and only if background is a non-empty value  *)
(* and outputFormats is absent, empty or names 'svgWithBackground';        *)
(* otherwise the field is absent, and a present field is not empty.        *)
C7_BackgroundIff ==
  \A g \in Generated :
    /\ "svgWithBackground" \in DOMAIN g.res <=>
         /\ "background" \in DOMAIN g.req
         /\ g.req.background # ""
         /\ NoFilter(g.req) \/ Names(g.req, "svgWithBackground")
    /\ "svgWithBackground" \in DOMAIN g.res => g.res.svgWithBackground # ""

\* a generated result without the field although outputFormats names it,
\* the background being the empty string
C7_Witness ==
  \E g \in Generated :
    /\ Names(g.req, "svgWithBackground")
    /\ "background" \in DOMAIN g.req /\ g.req.background = ""
    /\ "svgWithBackground" \notin DOMAIN g.res

---------------------------------------------------------------------------
(* C8: for every request whose font resolved: without a filter (absent or  *)
(* empty outputFormats) pathElement and svg are both non-empty; with a     *)
(* non-empty outputFormats pathElement is non-empty exactly when the list  *)
(* names 'pathElement' and svg exactly when it names 'svg', the others     *)
(* being the empty string; with ['pathData'] both are empty and            *)
(* svgWithBackground is absent even if background is set.                  *)
C8_FormatFilter ==
  \A g \in Generated :
    /\ NoFilter(g.req) => g.res.pathElement # "" /\ g.res.svg # ""
    /\ ~NoFilter(g.req) =>
         /\ g.res.pathElement # "" <=> Names(g.req, "pathElement")
         /\ g.res.svg # "" <=> Names(g.req, "svg")
    /\ (~NoFilter(g.req) /\ g.req.outputFormats = <<"pathData">>) =>
         /\ g.res.pathElement = ""
         /\ g.res.svg = ""
         /\ "svgWithBackground" \notin DOMAIN g.res

\* a result generated under outputFormats = ['pathData'] with a background set
C8_Witness ==
  \E g \in Generated :
    /\ ~NoFilter(g.req) /\ g.req.outputFormats = <<"pathData">>
    /\ "background" \in DOMAIN g.req /\ g.req.background # ""
    /\ g.res.pathElement = "" /\ g.res.svg = ""

\* a result generated under the empty outputFormats list
C8_WitnessEmptyList ==
  \E g \in Generated :
    /\ "outputFormats" \in DOMAIN g.req /\ g.req.outputFormats = <<>>
    /\ g.res.pathElement # "" /\ g.res.svg # ""

---------------------------------------------------------------------------
(* C9: for every request whose font resolved, pathData is the font's       *)
(* serialized path for (text, x, y, fontSize, kerning) whatever            *)
(* outputFormats holds, also when the list is non-empty and does not name  *)
(* 'pathData'; and that same string is the d attribute embedded in         *)
(* pathElement, svg and svgWithBackground of the result.                   *)
ExpectedPathData(r) ==
  LET fontSize == IF "fontSize" \in DOMAIN r THEN r.fontSize ELSE 72
      x == IF "x" \in DOMAIN r THEN r.x ELSE 0
      y == IF "y" \in DOMAIN r THEN r.y ELSE fontSize
      kerning == IF "kerning" \in DOMAIN r THEN r.kerning ELSE TRUE
  IN toPathData(getPath(FontAt(r.fontUrl), r.text, x, y, fontSize, kerning))

DAttribute(d) == "d=\"" \o d \o "\""

C9_PathDataAlways ==
  \A g \in Generated :
    /\ g.res.pathData = ExpectedPathData(g.req)
    /\ g.res.pathData # ""
    /\ g.res.pathElement # "" => Contains(g.res.pathElement, DAttribute(g.res.pathData))
    /\ g.res.svg # "" => Contains(g.res.svg, DAttribute(g.res.pathData))
    /\ "svgWithBackground" \in DOMAIN g.res =>
         Contains(g.res.svgWithBackground, DAttribute(g.res.pathData))

\* a result generated under outputFormats = ['svgWithBackground']: pathData
\* is not named, and is computed and embedded
C9_Witness ==
  \E g \in Generated :
    /\ ~NoFilter(g.req) /\ g.req.outputFormats = <<"svgWithBackground">>
    /\ "svgWithBackground" \in DOMAIN g.res
    /\ g.res.pathData # ""

---------------------------------------------------------------------------
(* C10: when svg is produced, with padding = fontSize * 0.2: the width     *)
(* (height) of the svg is the request's explicit width (height) whenever   *)
(* the field is given, whatever its numeric value, and                     *)
(* ceil(bbox.x2 - bbox.x1 + 2 * padding) (ceil(bbox.y2 - bbox.y1 + 2 *     *)
(* padding)) only when the field is absent; the viewBox is                 *)
(* (bbox.x1 - padding, bbox.y1 - padding, width, height) with that width   *)
(* and height.                                                             *)

\* the bounding box of the request's path, in tenths
ExpectedBox(r) ==
  LET fontSize == IF "fontSize" \in DOMAIN r THEN r.fontSize ELSE 72
      x == IF "x" \in DOMAIN r THEN r.x ELSE 0
      y == IF "y" \in DOMAIN r THEN r.y ELSE fontSize
      kerning == IF "kerning" \in DOMAIN r THEN r.kerning ELSE TRUE
  IN getBoundingBox(getPath(FontAt(r.fontUrl), r.text, x, y, fontSize, kerning))

\* fontSize * 0.2, in tenths
ExpectedPadding(r) == 2 * (IF "fontSize" \in DOMAIN r THEN r.fontSize ELSE 72)

\* the opening tag of an svg of width w, height h and viewBox origin (vx, vy)
SvgOpening(w, h, vx, vy) ==
  "width=\"" \o ToString(w) \o "\" \nheight=\"" \o ToString(h)
  \o "\" \nviewBox=\"" \o NumStr(vx) \o " " \o NumStr(vy) \o " "
  \o ToString(w) \o " " \o ToString(h) \o "\""

\* the svg of the result of request r has width w and height h, and the
\* viewBox the claim describes
SvgHasDimensions(g, w, h) ==
  LET b == ExpectedBox(g.req)
      p == ExpectedPadding(g.req)
  IN Contains(g.res.svg, SvgOpening(w, h, b.x1 - p, b.y1 - p))

\* the claim as it stands: a given width or height is used whatever its value
C10_ExplicitDimensions ==
  \A g \in Generated :
    g.res.svg # "" =>
      LET b == ExpectedBox(g.req)
          p == ExpectedPadding(g.req)
          w == IF "width" \in DOMAIN g.req THEN g.req.width
               ELSE Ceil(b.x2 - b.x1 + 2 * p)
          h == IF "height" \in DOMAIN g.req THEN g.req.height
               ELSE Ceil(b.y2 - b.y1 + 2 * p)
      IN SvgHasDimensions(g, w, h)

\* what the code does: a given width or height of 0 is replaced by the
\* computed one, like an absent one
C10_TruthyDimensions ==
  \A g \in Generated :
    g.res.svg # "" =>
      LET b == ExpectedBox(g.req)
          p == ExpectedPadding(g.req)
          w == IF "width" \in DOMAIN g.req /\ g.req.width # 0 THEN g.req.width
               ELSE Ceil(b.x2 - b.x1 + 2 * p)
          h == IF "height" \in DOMAIN g.req /\ g.req.height # 0 THEN g.req.height
               ELSE Ceil(b.y2 - b.y1 + 2 * p)
      IN SvgHasDimensions(g, w, h)

\* an svg generated for a request with width: 0 whose width attribute is the
\* computed one, not 0
C10_ZeroWidthReplaced ==
  \E g \in Generated :
    /\ g.res.svg # ""
    /\ "width" \in DOMAIN g.req /\ g.req.width = 0
    /\ "height" \notin DOMAIN g.req
    /\ LET b == ExpectedBox(g.req)
           p == ExpectedPadding(g.req)
       IN /\ Ceil(b.x2 - b.x1 + 2 * p) # 0
          /\ SvgHasDimensions(g, Ceil(b.x2 - b.x1 + 2 * p), Ceil(b.y2 - b.y1 + 2 * p))

---------------------------------------------------------------------------
(* C11: two separate calls with the same argument, whose retrievals the    *)
(* font resource answered in the same way, end in the same outcome: in     *)
(* single mode the same pathData, pathElement and svg strings, in batch    *)
(* mode the same result under every label; what an earlier call did has    *)
(* no part in it.                                                          *)

\* calls i and j of the history had the same argument and the same answers
SameCall(i, j) == hist[i].input = hist[j].input /\ hist[i].fate = hist[j].fate

C11_SameRequestSameResult ==
  \A i, j \in DOMAIN hist :
    (pc = "idle" /\ SameCall(i, j)) =>
      /\ hist[i].ret = hist[j].ret
      /\ (hist[i].ret.kind = "resolved" /\ hist[i].ret.mode = "single") =>
           /\ hist[i].ret.value.pathData = hist[j].ret.value.pathData
           /\ hist[i].ret.value.pathElement = hist[j].ret.value.pathElement
           /\ hist[i].ret.value.svg = hist[j].ret.value.svg

\* a request was resolved, its font then failed, and it was resolved again
\* to the strings of the first call
C11_Witness ==
  /\ Len(hist) = 3
  /\ SameCall(1, 3)
  /\ ~SameCall(1, 2)
  /\ hist[1].ret.kind = "resolved" /\ hist[1].ret.mode = "single"
  /\ hist[3].ret.kind = "resolved"
  /\ hist[1].ret.value.pathData # ""
  /\ hist[3].ret.value.svg = hist[1].ret.value.svg

---------------------------------------------------------------------------
(* C12: no font outlives a call. Every call that names a font URL, single  *)
(* or batch, retrieves that URL once itself, whatever earlier calls did:   *)
(* after k ended calls that name u the retrieval of u has been invoked     *)
(* exactly k times, and the outcome of each call follows from the answers  *)
(* to its own retrievals alone, not from the success or failure of u in an *)
(* earlier call.                                                           *)

\* the argument o names the font URL u
Refers(o, u) == IF IsSingle(o) THEN FontUrlKey(o) = u ELSE u \in RequestedUrls(o)

\* the ended calls that named u
CallsReferring(u) == {i \in DOMAIN hist : Refers(hist[i].input, u)}

\* the retrievals of u the ended calls invoked
RetrievalsOf(u) ==
  UNION {{<<i, k>> : k \in {n \in DOMAIN hist[i].fetchLog : hist[i].fetchLog[n] = u}} :
           i \in DOMAIN hist}

\* the outcome of the ended call h is what the answers to its own
\* retrievals make it
OwnOutcome(h) ==
  IF IsSingle(h.input)
  THEN LET u == FontUrlKey(h.input)
       IN IF h.ret.kind = "resolved"
          THEN /\ u \notin DOMAIN h.fate
               /\ h.ret.value = processTextWithFont(h.input, FontAt(u))
          ELSE /\ u \in DOMAIN h.fate /\ ~h.fate[u].ok
               /\ h.ret.message = SingleErrorMessage(h.fate[u].message)
  ELSE \A l \in DOMAIN h.input :
         LET u == FontUrlKey(h.input[l])
         IN /\ u \in DOMAIN h.fate
            /\ h.ret.value[l] = IF h.fate[u].ok
                                THEN processTextWithFont(h.input[l], FontAt(u))
                                ELSE Degraded(h.fate[u].message)

\* the history is looked at when a call has just ended and the caller has
\* kept its outcome; it is the same until the next call ends, and every
\* kept outcome was once the last
C12_NoFontSurvivesCall ==
  /\ \A u \in Urls : (pc = "done" /\ Refers(input, u)) => Count(fetchLog, u) = 1
  /\ pc = "idle" =>
        /\ \A u \in Urls :
              /\ Cardinality(RetrievalsOf(u)) = Cardinality(CallsReferring(u))
              /\ \A i \in CallsReferring(u) : Count(hist[i].fetchLog, u) = 1
        /\ hist # <<>> => OwnOutcome(hist[Len(hist)])

\* three calls named the same URL: the first resolved it, the second failed
\* on it, the third resolved it again, each with a retrieval of its own
C12_Witness ==
  /\ Len(hist) = 3
  /\ \E u \in Urls :
        /\ CallsReferring(u) = {1, 2, 3}
        /\ Cardinality(RetrievalsOf(u)) = 3
        /\ hist[1].ret.kind = "resolved" /\ hist[1].ret.mode = "single"
        /\ hist[2].ret.kind = "rejected"
        /\ hist[3].ret.kind = "resolved"

\* the same in batch mode: a group degraded in the first call is generated
\* in the second and degraded again in the third
C12_WitnessBatch ==
  /\ Len(hist) = 3
  /\ \E u \in Urls :
        /\ Cardinality(RetrievalsOf(u)) = 3
        /\ hist[1].ret.mode = "batch"
        /\ ~hist[1].fate[u].ok /\ hist[2].fate[u].ok /\ ~hist[3].fate[u].ok
        /\ hist[2].ret.value.a.pathData # "" /\ hist[3].ret.value.a.pathData = ""

---------------------------------------------------------------------------
(* C13: in a batch call every font group ends all-or-nothing. When the     *)
(* font resolved and the generation throws for a label after earlier       *)
(* labels of the group were given generated results, the catch writes the  *)
(* degraded result under every label of the group, the generated ones      *)
(* included: a processed group has either the generated result under each  *)
(* of its labels or the same degraded result under each of them.           *)

\* the group of url was processed: all its labels have the generated result
AllGenerated(url) ==
  /\ fate[url].ok
  /\ \A l \in LabelsOf(input, url) :
        /\ l \in DOMAIN result
        /\ ~GenThrows(input[l])
        /\ result[l] = processTextWithFont(input[l], FontAt(url))
        /\ result[l].pathData # ""

\* the group of url was processed: all its labels have the degraded result
AllDegraded(url) ==
  /\ ~fate[url].ok
  /\ \A l \in LabelsOf(input, url) :
        l \in DOMAIN result /\ result[l] = Degraded(fate[url].message)

\* the generation threw in the group of url
ThrewIn(url) == GroupFailed(url) /\ fate[url].message = GenErrorMessage

C13_GroupAllOrNothing ==
  InBatch =>
    \A u \in DOMAIN fate :
      /\ AllGenerated(u) \/ AllDegraded(u)
      /\ ThrewIn(u) => AllDegraded(u)
      /\ (\E l \in LabelsOf(input, u) : GenThrows(input[l])) => ~fate[u].ok

\* the call returned; in the group of a font that resolved, label a had a
\* text and was generated, label b had none, and a is degraded like b
C13_Witness ==
  /\ BatchDone
  /\ \E u \in DOMAIN fate :
        /\ ThrewIn(u)
        /\ {"a", "b"} \subseteq LabelsOf(input, u)
        /\ ~GenThrows(input.a) /\ GenThrows(input.b)
        /\ ret.value.a = Degraded(GenErrorMessage)
        /\ ret.value.b = Degraded(GenErrorMessage)

\* the moment before the catch block runs: label a has its generated result
C13_GeneratedBeforeCatch ==
  /\ pc = "b_catch"
  /\ error = GenErrorMessage
  /\ ki = 2
  /\ "a" \in DOMAIN result /\ result.a.pathData # ""

---------------------------------------------------------------------------
(* C14: the font groups of a batch call are processed strictly one after   *)
(* another. At any moment at most one retrieval is outstanding; the        *)
(* retrieval of a group is invoked only when every earlier group is        *)
(* finished, each of its labels written; while a retrieval is outstanding  *)
(* no later group has a result, and the only step the call can take is     *)
(* the settling of that retrieval: no result is written, no other          *)
(* retrieval starts and the call does not return, so a retrieval that      *)
(* never completes holds up the whole call.                                *)

\* a retrieval is outstanding: the call awaits the response or its bytes
Pending == pc \in {"b_await_fetch", "b_await_body"}

\* the retrievals invoked and not yet settled
Outstanding ==
  Len(fetchLog) - Cardinality(DOMAIN fate) - (IF pc \in {"b_gen", "b_catch"} THEN 1 ELSE 0)

\* every label of group number k has a result
GroupWritten(k) ==
  /\ groupOrder[k] \in DOMAIN fate
  /\ \A i \in DOMAIN fontGroups[groupOrder[k]] :
        fontGroups[groupOrder[k]][i] \in DOMAIN result

\* no label of group number k has a result
GroupUntouched(k) ==
  \A i \in DOMAIN fontGroups[groupOrder[k]] :
    fontGroups[groupOrder[k]][i] \notin DOMAIN result

C14_OneAtATime ==
  InBatch =>
    /\ Outstanding \in {0, 1}
    /\ Outstanding = 1 <=> Pending
    /\ Len(fetchLog) <= Len(groupOrder)
    /\ \A k \in DOMAIN fetchLog :
          /\ fetchLog[k] = groupOrder[k]
          /\ k < Len(fetchLog) => GroupWritten(k)
    /\ Pending => \A k \in gi..Len(groupOrder) : GroupUntouched(k)
    /\ BatchDone => \A k \in DOMAIN groupOrder : GroupWritten(k)

\* a step taken while a retrieval is outstanding settles that retrieval
C14_PendingStep ==
  Pending =>
    /\ pc' \in {"b_await_body", "b_gen", "b_catch"}
    /\ result' = result
    /\ ret' = ret
    /\ fetchLog' = fetchLog
    /\ gi' = gi

C14_StrictlySequential == []C14_OneAtATime /\ [][C14_PendingStep]_vars

\* the retrieval of the second group is outstanding; the first group is
\* finished, its labels written, and the third group has nothing yet
C14_Witness ==
  /\ pc = "b_await_fetch"
  /\ gi = 2
  /\ Len(groupOrder) = 3
  /\ Len(fetchLog) = 2
  /\ GroupWritten(1)
  /\ GroupUntouched(2) /\ GroupUntouched(3)
  /\ result # EmptyObj

---------------------------------------------------------------------------
(* C15: single mode and batch mode agree on success. For a request r whose *)
(* font resolves in both calls, the result of textToSvgPath(r) equals the  *)
(* result textToSvgPath({a: r}) stores under a, field for field: pathData, *)
(* pathElement, svg, and svgWithBackground present in both with the same   *)
(* value or absent from both. The outcomes differ only where the           *)
(* resolution fails: the single call rejects, the batch call resolves      *)
(* with the degraded result under a.                                       *)

\* call i of the history passed a request and call j the mapping of a to it
SingleAndBatchOf(i, j) ==
  IsSingle(hist[i].input) /\ hist[j].input = [a |-> hist[i].input]

\* the font of the request resolved in call i (single) / in call j (batch)
ResolvedInSingle(i) == FontUrlKey(hist[i].input) \notin DOMAIN hist[i].fate
ResolvedInBatch(j) == hist[j].fate[FontUrlKey(hist[j].input.a)].ok

\* the records s and b agree on the field f: in both and equal, or in neither
AgreeOn(s, b, f) ==
  /\ (f \in DOMAIN s) <=> (f \in DOMAIN b)
  /\ f \in DOMAIN s => s[f] = b[f]

C15_ModesAgreeOnSuccess ==
  \A i, j \in DOMAIN hist :
    SingleAndBatchOf(i, j) =>
      /\ hist[j].ret.kind = "resolved"
      /\ ResolvedInSingle(i) <=> hist[i].ret.kind = "resolved"
      /\ ResolvedInBatch(j) <=> hist[j].ret.value.a.pathData # ""
      /\ (ResolvedInSingle(i) /\ ResolvedInBatch(j)) =>
           /\ hist[i].ret.value = hist[j].ret.value.a
           /\ \A f \in {"pathData", "pathElement", "svg", "svgWithBackground"} :
                 AgreeOn(hist[i].ret.value, hist[j].ret.value.a, f)
      /\ ~ResolvedInSingle(i) => hist[i].ret.kind = "rejected"
      /\ ~ResolvedInBatch(j) =>
           hist[j].ret.value.a =
             Degraded(hist[j].fate[FontUrlKey(hist[j].input.a)].message)

\* both calls resolved the font of a request that asks for a background and
\* for only some of the formats; the two results are the same record
C15_Witness ==
  /\ Len(hist) = 2
  /\ SingleAndBatchOf(1, 2)
  /\ ResolvedInSingle(1) /\ ResolvedInBatch(2)
  /\ "outputFormats" \in DOMAIN hist[1].input
  /\ hist[1].input.outputFormats = <<"svg", "svgWithBackground">>
  /\ "svgWithBackground" \in DOMAIN hist[1].ret.value
  /\ hist[1].ret.value.pathElement = ""
  /\ hist[2].ret.value.a = hist[1].ret.value

\* the font failed in both calls: the single call rejected, the batch call
\* resolved with the degraded result
C15_WitnessFailure ==
  /\ Len(hist) = 2
  /\ SingleAndBatchOf(1, 2)
  /\ hist[1].ret.kind = "rejected"
  /\ hist[2].ret.kind = "resolved"
  /\ hist[2].ret.value.a.pathData = ""

====
